---- MODULE Spec2Model ----
(***************************************************************************)
(* Rig Manager (VS Code extension): the version coordination engine of     *)
(* src/unnamed/part_002 (release 0.3.0) as a state machine.                *)
(*                                                                         *)
(* The extension host is single threaded: every handler below runs to      *)
(* completion, and suspends only at child-process callbacks and at user    *)
(* prompts.  One action = one handler run (or one step of the environment: *)
(* the rig backend executing a command, the user answering a prompt).      *)
(***************************************************************************)
EXTENDS Integers, Sequences, FiniteSets, Bags, TLC

\* ------------------------------------------------------------------ bounds
MaxCmds == 2         \* commands the user starts (switch, install, remove, refresh)
MaxEnsure == 2       \* direct launchRConsole calls of the console harness
MaxCalls == 2        \* fire-and-forget listings in flight at once
MaxValue == 4        \* characters of a field value that is not a path
MaxPath == 2         \* characters of a path after its drive prefix
MaxRenv == 1         \* runs of checkRenvRequirements

\* ------------------------------------------------------- the rig universe
None == "none"
\* What each installation name of rig (r.name) stands for.
VersionOf(n) ==
    CASE n = "4.2-x" -> "4.2.0"
      [] n = "4.3.2" -> "4.3.2"
      [] n = "5.0-x" -> "5.0.0"
      [] OTHER -> "4.3.1"
BinaryOf(n) ==
    CASE n = "4.2-x" -> "/opt/R/4.2-x/bin/R"
      [] n = "4.3.2" -> "/opt/R/4.3.2/bin/R"
      [] n = "5.0-x" -> "/opt/R/5.0-x/bin/R"
      [] OTHER -> "/opt/R/4.3-x/bin/R"
\* `rig add <version>` creates the installation of that name.
InstallName(v) ==
    CASE v = "4.2.0" -> "4.2-x"
      [] v = "4.3.2" -> "4.3.2"
      [] v = "5.0.0" -> "5.0-x"
      [] OTHER -> "4.3-x"
\* `rig available --json`: the remote catalogue (r.name is a version).
Available == << [name |-> "4.3.1"], [name |-> "4.2.0"] >>

Platforms == {"win32", "darwin", "linux"}

\* Exit codes of a child process: 0, 1 (sudo: wrong password), 2 (any other
\* failure) and Killed, the close event's code after child.kill() (null in
\* Node: neither === 0 nor === 1).
Killed == -1
SpawnFailed == -2
ExitCodes == {0, 1, 2}

R_CONSOLE_NAME == "R Console"
rTerminalNames == {"R Console", "R Interactive"}

VARIABLES
    platform,       \* process.platform
    autoLaunch,     \* config rig-manager.rConsole.autoLaunch
    statusVisible,  \* config rig-manager.statusBar.visible
    provider,       \* vscode.extensions.getExtension('REditorSupport.r') found
    autoCheck,      \* config rig-manager.renv.autoCheck
    manifest,       \* the workspace folder and its renv.lock
    active,         \* activate() has run
    rigInstalled,   \* backend: installed names, in listing order
    rigDefault,     \* backend: the default installation, or None
    terminals,      \* vscode.window.terminals: sequence of [name, shellPath]
    statusBar,      \* rStatusBarItem: [visible, text]
    calls,          \* bag of fire-and-forget `rig list --json` calls in flight
    ops,            \* the commands started so far, each with its position
    nRefresh,       \* refresh commands run
    recs,           \* the runs of checkRenvRequirements, each with its position
    launchLog       \* the launchRConsole calls of the harness: forceNew, and
                    \* the rConsole.autoLaunch setting the call read

vars == << platform, autoLaunch, statusVisible, provider, autoCheck, manifest,
           active, rigInstalled, rigDefault, terminals, statusBar, calls, ops,
           nRefresh, recs, launchLog >>

config == << platform, autoLaunch, statusVisible, provider, autoCheck >>
reconciler == << manifest, recs >>
backend == << rigInstalled, rigDefault >>

\* ------------------------------------------------------- backend listing
\* `rig list --json`: one record per installation, default flagged.
Listing(inst, def) ==
    [k \in 1..Len(inst) |->
        [name |-> inst[k], version |-> VersionOf(inst[k]),
         default |-> (inst[k] = def), binary |-> BinaryOf(inst[k])]]

\* executeRigCommand settles with the parsed listing, or rejects: exec
\* reported an error (rig missing, non-zero exit), or JSON.parse threw.
OkResult(list) == [ok |-> TRUE, list |-> list, why |-> None]
ErrResult(why) == [ok |-> FALSE, list |-> << >>, why |-> why]
NoResult == [ok |-> FALSE, list |-> << >>, why |-> None]
Rejections == {"BackendUnavailable", "MalformedOutput"}

\* Array.prototype.find(r => r.default === true): index of the first entry
\* flagged default, 0 when there is none.
FindDefault(list) ==
    LET hits == {k \in 1..Len(list) : list[k].default}
    IN IF hits = {} THEN 0 ELSE CHOOSE k \in hits : \A j \in hits : k <= j

SeqToSet(s) == {s[k] : k \in 1..Len(s)}

\* ------------------------------------------------------ status publisher
StatusCall == [purpose |-> "status", force |-> FALSE, phase |-> "run", res |-> NoResult]
ConsoleCall(force) == [purpose |-> "console", force |-> force, phase |-> "run", res |-> NoResult]
ProviderCall == [purpose |-> "provider", force |-> FALSE, phase |-> "read", res |-> NoResult]

\* updateStatusBar(), its synchronous part: hide when the toggle is off,
\* else start a listing.
UpdateStatusBar_bar(bar) ==
    IF ~statusVisible THEN [bar EXCEPT !.visible = FALSE] ELSE bar
UpdateStatusBar_calls(c) ==
    IF ~statusVisible THEN c ELSE c (+) SetToBag({StatusCall})

\* A catch that leaves the indicator as it is.
StatusRenderKeepsShown(res) ==
    IF ~res.ok THEN statusBar
    ELSE LET d == FindDefault(res.list)
         IN IF d # 0 THEN [visible |-> TRUE, text |-> res.list[d].version]
            ELSE [visible |-> TRUE, text |-> "Not set"]

\* updateStatusBar(), the listing's then/catch.
StatusRender(res) ==
    IF ~res.ok THEN [visible |-> FALSE, text |-> statusBar.text]
    ELSE LET d == FindDefault(res.list)
         IN IF d # 0 THEN [visible |-> TRUE, text |-> res.list[d].version]
            ELSE [visible |-> TRUE, text |-> "Not set"]

\* ------------------------------------------------------ console lifecycle
NotRTerminal(t) == t.name \notin rTerminalNames
HasConsole(ts) == \E k \in 1..Len(ts) : ts[k].name = R_CONSOLE_NAME

\* Remove the first terminal named R_CONSOLE_NAME (existingTerminal.dispose()).
RECURSIVE DisposeFirstConsole(_)
DisposeFirstConsole(ts) ==
    IF ts = << >> THEN << >>
    ELSE IF Head(ts).name = R_CONSOLE_NAME THEN Tail(ts)
    ELSE << Head(ts) >> \o DisposeFirstConsole(Tail(ts))

\* A forced disposal that closes every open terminal.
AfterForcedDisposeAll(ts, forceNew) ==
    IF forceNew THEN << >> ELSE ts
\* launchRConsole(forceNew), lines 491-504: the terminals left after the
\* forced disposal of every terminal of the R name set.
AfterForcedDispose(ts, forceNew) ==
    IF forceNew THEN SelectSeq(ts, NotRTerminal) ELSE ts

\* A launch that lists the versions whether or not a console is open.
BasicStartsListingAlways(ts, forceNew) == TRUE
\* launchBasicRConsole(forceNew), its synchronous part: whether it goes on to
\* list the versions, and the terminals it leaves.
BasicStartsListing(ts, forceNew) == ~(HasConsole(ts) /\ ~forceNew)
BasicTerminals(ts, forceNew) ==
    IF HasConsole(ts) /\ forceNew THEN DisposeFirstConsole(ts) ELSE ts

\* A launch that leaves every open terminal in place.
LaunchRConsole_termsReuses(ts, forceNew) == ts
\* launchRConsole(forceNew): terminals and calls after its synchronous part.
LaunchRConsole_terms(ts, forceNew) ==
    IF ~autoLaunch THEN ts
    ELSE IF provider THEN AfterForcedDispose(ts, forceNew)
    ELSE BasicTerminals(AfterForcedDispose(ts, forceNew), forceNew)
\* A launch that never reads rConsole.autoLaunch.
LaunchRConsole_callsIgnoresToggle(c, ts, forceNew) ==
    IF provider THEN c (+) SetToBag({ProviderCall})
    ELSE IF BasicStartsListing(AfterForcedDispose(ts, forceNew), forceNew)
         THEN c (+) SetToBag({ConsoleCall(forceNew)})
         ELSE c
LaunchRConsole_calls(c, ts, forceNew) ==
    IF ~autoLaunch THEN c
    ELSE IF provider THEN c (+) SetToBag({ProviderCall})
    ELSE IF BasicStartsListing(AfterForcedDispose(ts, forceNew), forceNew)
         THEN c (+) SetToBag({ConsoleCall(forceNew)})
         ELSE c

CountConsoles == Cardinality({k \in 1..Len(terminals) : terminals[k].name = R_CONSOLE_NAME})

\* ------------------------------------------------------ project manifest
\* JavaScript's undefined, as a property value.
Undefined == "undefined"

\* The workspace: no folder open; a folder without renv.lock; a folder whose
\* renv.lock is not JSON; a folder whose renv.lock holds a JSON value.
NoFolder == [file |-> "noFolder", json |-> [type |-> Undefined]]
Absent == [file |-> "absent", json |-> [type |-> Undefined]]
Malformed == [file |-> "malformed", json |-> [type |-> Undefined]]
Lock(json) == [file |-> "json", json |-> json]

\* JSON values of renv.lock: null, an array, a number, and objects with or
\* without the member R, whose value is null or an object with or without
\* the member Version.
JsonNull == [type |-> "null"]
JsonArray == [type |-> "array"]
JsonNumber == [type |-> "number"]
JsonObject(r) == [type |-> "object", R |-> r]
JsonR(version) == [type |-> "object", Version |-> version]

\* The version strings a renv.lock requires in the runs.
Requirements == {"4.3.1", "4.3.0", "5.0.0"}

Manifests ==
    {NoFolder, Absent, Malformed}
    \cup {Lock(j) : j \in {JsonNull, JsonArray, JsonNumber,
                            JsonObject([type |-> Undefined]), JsonObject(JsonNull),
                            JsonObject(JsonR(Undefined)), JsonObject(JsonR(""))}}
    \cup {Lock(JsonObject(JsonR(v))) : v \in Requirements}

\* The characters of the version strings of the runs.
Chars(v) ==
    CASE v = "4.2.0" -> << "4", ".", "2", ".", "0" >>
      [] v = "4.3.0" -> << "4", ".", "3", ".", "0" >>
      [] v = "4.3.1" -> << "4", ".", "3", ".", "1" >>
      [] v = "4.3.2" -> << "4", ".", "3", ".", "2" >>
      [] v = "5.0.0" -> << "5", ".", "0", ".", "0" >>
      [] OTHER -> << >>

\* String.prototype.split(sep): the pieces between the separators.
RECURSIVE Split(_, _)
Split(cs, sep) ==
    IF cs = << >> THEN << << >> >>
    ELSE LET rest == Split(Tail(cs), sep) IN
         IF Head(cs) = sep THEN << << >> >> \o rest
         ELSE << << Head(cs) >> \o Head(rest) >> \o Tail(rest)

\* const [major, minor] = s.split('.'): a missing piece is undefined.
Piece(parts, k) == IF k <= Len(parts) THEN parts[k] ELSE << Undefined >>

\* renvData.R?.Version, for a renvData that is not null.
RequiredVersion(json) ==
    IF json.type # "object" THEN Undefined
    ELSE IF json.R.type # "object" THEN Undefined
    ELSE json.R.Version

\* !requiredRVersion
Falsy(v) == v \in {Undefined, ""}

\* Array.prototype.find(r => r.version === requiredRVersion): index of the
\* first such entry, 0 when there is none.
FindExact(req, list) ==
    LET hits == {k \in 1..Len(list) : list[k].version = req}
    IN IF hits = {} THEN 0 ELSE CHOOSE k \in hits : \A j \in hits : k <= j

\* installedMajor === major && installedMinor === minor
SameMajorMinor(req, v) ==
    LET r == Split(Chars(req), ".")
        i == Split(Chars(v), ".")
    IN Piece(i, 1) = Piece(r, 1) /\ Piece(i, 2) = Piece(r, 2)

\* The second find, lines 671-674.
FindCompatible(req, list) ==
    LET hits == {k \in 1..Len(list) : SameMajorMinor(req, list[k].version)}
    IN IF hits = {} THEN 0 ELSE CHOOSE k \in hits : \A j \in hits : k <= j

\* A resolution that takes the first entry that matches either way.
RequiredVersionInstalledFirstEither(req, list) ==
    LET hits == {k \in 1..Len(list) :
                    list[k].version = req \/ SameMajorMinor(req, list[k].version)}
    IN IF hits = {} THEN 0 ELSE CHOOSE k \in hits : \A j \in hits : k <= j

\* handleRenvVersionRequirement, lines 667-675: requiredVersionInstalled.
RequiredVersionInstalled(req, list) ==
    IF FindExact(req, list) # 0 THEN FindExact(req, list)
    ELSE FindCompatible(req, list)

\* The backends the reconciler runs start from: << installed, default >>.
TwoInstalled == << << "4.3-x", "4.2-x" >>, "4.2-x" >>
OnlyNewer == << << "4.3.2" >>, "4.3.2" >>
NewerFirst == << << "4.3.2", "4.3-x" >>, None >>
OnlyRequired == << << "4.3-x" >>, "4.3-x" >>
NoneInstalled == << << >>, None >>
RenvBackends == {TwoInstalled, OnlyNewer, NewerFirst, OnlyRequired, NoneInstalled}

\* The runs of the reconciler start from these << autoCheck, manifest,
\* backend >>: every workspace without a requirement with either setting of
\* autoCheck, and the requirements against the backends that tell their
\* cases apart (exact, compatible, both, neither, already the default).
Requires(v) == Lock(JsonObject(JsonR(v)))
RenvCases ==
    {<< ac, m, TwoInstalled >> :
        ac \in BOOLEAN, m \in {x \in Manifests : x.file # "json" \/ Falsy(RequiredVersion(x.json))}}
    \cup {<< TRUE, Requires("4.3.1"), b >> : b \in RenvBackends}
    \cup {<< TRUE, Requires("4.3.0"), b >> : b \in {TwoInstalled, NewerFirst}}
    \cup {<< TRUE, Requires("5.0.0"), b >> : b \in {OnlyNewer, NoneInstalled}}
    \cup {<< FALSE, Requires("4.3.1"), TwoInstalled >>}

\* ------------------------------------------------------------------ Init
InitBackends ==
    { << << "4.2-x", "4.3-x" >>, "4.2-x" >> }

\* The settings the runs start from: << autoLaunch, statusVisible, provider >>.
InitConfigs ==
    { << TRUE, TRUE, FALSE >>, << TRUE, FALSE, FALSE >>,
      << FALSE, TRUE, FALSE >>, << TRUE, TRUE, TRUE >> }

\* The bound on the listings in flight after a step.
Room == BagCardinality(calls') <= MaxCalls

Init ==
    /\ platform \in Platforms
    /\ \E c \in InitConfigs :
          autoLaunch = c[1] /\ statusVisible = c[2] /\ provider = c[3]
    /\ autoCheck = TRUE
    /\ manifest = NoFolder
    /\ recs = << >>
    /\ active = FALSE
    /\ \E b \in InitBackends : rigInstalled = b[1] /\ rigDefault = b[2]
    /\ terminals = << >>
    /\ statusBar = [visible |-> FALSE, text |-> ""]
    /\ calls = EmptyBag
    /\ ops = << >>
    /\ nRefresh = 0
    /\ launchLog = << >>

\* --------------------------------------------------------------- triggers
\* activate(): updateStatusBar(); launchRConsole();
Activate ==
    /\ ~active
    /\ active' = TRUE
    /\ statusBar' = UpdateStatusBar_bar(statusBar)
    /\ terminals' = LaunchRConsole_terms(terminals, FALSE)
    /\ calls' = LaunchRConsole_calls(UpdateStatusBar_calls(calls), terminals, FALSE)
    /\ Room
    /\ UNCHANGED << config, reconciler, backend, ops, nRefresh, launchLog >>

\* rig-manager.refresh: updateStatusBar(); launchRConsole(true); message.
RefreshCmd ==
    /\ active
    /\ Len(ops) + nRefresh < MaxCmds
    /\ nRefresh' = nRefresh + 1
    /\ statusBar' = UpdateStatusBar_bar(statusBar)
    /\ terminals' = LaunchRConsole_terms(terminals, TRUE)
    /\ calls' = LaunchRConsole_calls(UpdateStatusBar_calls(calls), terminals, TRUE)
    /\ Room
    /\ UNCHANGED << config, reconciler, active, backend, ops, launchLog >>

\* ------------------------------------------------ fire-and-forget listings
\* The backend runs `rig list --json`: it reads the installations now, or
\* fails (rig missing, non-zero exit), or prints what JSON.parse rejects.
CallRun ==
    \E c \in BagToSet(calls) :
        /\ c.phase = "run"
        /\ \E r \in {OkResult(Listing(rigInstalled, rigDefault))}
                      \cup {ErrResult(why) : why \in Rejections} :
            calls' = (calls (-) SetToBag({c}))
                     (+) SetToBag({[c EXCEPT !.phase = "read", !.res = r]})
        /\ UNCHANGED << config, reconciler, active, backend, terminals, statusBar, ops,
                        nRefresh, launchLog >>

\* updateStatusBar: .then / .catch of its listing.
StatusCallback ==
    \E c \in BagToSet(calls) :
        /\ c.purpose = "status" /\ c.phase = "read"
        /\ calls' = calls (-) SetToBag({c})
        /\ statusBar' = StatusRender(c.res)
        /\ UNCHANGED << config, reconciler, active, backend, terminals, ops, nRefresh, launchLog >>

\* launchBasicRConsole: whether the listing's .then creates a terminal.
ConsoleCreates(res) ==
    /\ res.ok
    /\ FindDefault(res.list) # 0
    /\ res.list[FindDefault(res.list)].binary # ""

\* launchBasicRConsole: .then / .catch of its listing.
ConsoleCallback ==
    \E c \in BagToSet(calls) :
        /\ c.purpose = "console" /\ c.phase = "read"
        /\ calls' = calls (-) SetToBag({c})
        /\ IF ConsoleCreates(c.res)
           THEN /\ terminals' = Append(terminals,
                      [name |-> R_CONSOLE_NAME,
                       shellPath |-> c.res.list[FindDefault(c.res.list)].binary])
           ELSE UNCHANGED terminals
        /\ UNCHANGED << config, reconciler, active, backend, statusBar, ops, nRefresh, launchLog >>

\* r.createRTerm, run by the external provider: it opens its own terminal.
ProviderCreate ==
    \E c \in BagToSet(calls) :
        /\ c.purpose = "provider"
        /\ calls' = calls (-) SetToBag({c})
        /\ terminals' = Append(terminals, [name |-> "R Interactive", shellPath |-> "provider"])
        /\ UNCHANGED << config, reconciler, active, backend, statusBar, ops, nRefresh, launchLog >>

\* ------------------------------------------------------------- commands
\* One record per command the user started.  pc is the await the command is
\* suspended at:
\*   listing   executeRigCommand's exec is running
\*   pick      the quick pick is open
\*   confirm   the uninstall confirmation is open
\*   exec      exec(`rig default`) is running (win32, darwin first attempt)
\*   execDone  ... has run, its callback is pending
\*   prompt    the sudo password input box is open
\*   spawned   the spawned child (rig, or sudo -S rig) is running
\*   spawnErr  the child could not be started, its error event is pending
\*   exited    the child has ended, its close event is pending
\*   done      nothing of the command is pending
\* The other fields record what the command did: the processes it spawned
\* (nSpawn, preSpawn = those before the password box), whether the last one
\* was under sudo (elev), its exit code, whether it changed the backend
\* (ran), for a switch whether no other command's process has changed the
\* backend since it chose its version (clean), the messages shown (reports), and
\* its calls of updateStatusBar (nUpd) and launchRConsole (nLaunch) and the
\* order it made them in (tail), the password the user typed (pw) and the
\* last process it started (proc).
\* A child process as the command started it: the program, its argument
\* list, the variables its options add to the inherited environment, and what
\* the command did with its standard input.
NoProc == [cmd |-> None, args |-> << >>, env |-> {}, stdin |-> << >>]

\* The rig subcommand of each kind of command.
RigSub(kind) ==
    CASE kind = "switch" -> "default"
      [] kind = "install" -> "add"
      [] OTHER -> "rm"

\* exec(`rig default ${versionName}`): a shell runs the command line.
ExecProc(kind, ver) ==
    [cmd |-> "sh", args |-> << "rig", RigSub(kind), ver >>, env |-> {}, stdin |-> << >>]

\* spawn('rig', [rigCommand, version], {shell: true, stdio: [...]}).
DirectProc(kind, ver) ==
    [cmd |-> "rig", args |-> << RigSub(kind), ver >>, env |-> {}, stdin |-> << >>]

\* A sudo spawn that hands the password over on the command line.
SudoProcLeaks(kind, ver, password) ==
    [cmd |-> "sh",
     args |-> << "-c", "echo", password, "|", "sudo", "-S", "rig", RigSub(kind), ver >>,
     env |-> {}, stdin |-> << >>]

\* spawn('sudo', ['-S', 'rig', rigCommand, version]);
\* child.stdin.write(password + '\n'); child.stdin.end();
SudoProc(kind, ver, password) ==
    [cmd |-> "sudo", args |-> << "-S", "rig", RigSub(kind), ver >>, env |-> {},
     stdin |-> << [call |-> "write", data |-> << password, "\n" >>],
                  [call |-> "end", data |-> << >>] >>]

\* What the user can type into the password box.
Passwords == {"hunter2"}

NewOp(kind) ==
    [kind |-> kind, pc |-> "listing", ver |-> None, snap |-> << >>,
     exit |-> 0, elev |-> FALSE, nSpawn |-> 0, preSpawn |-> 0,
     dismissed |-> FALSE, cancelled |-> FALSE, settled |-> FALSE,
     ran |-> FALSE, clean |-> TRUE, reports |-> << >>, nUpd |-> 0, nLaunch |-> 0,
     tail |-> << >>, pw |-> None, proc |-> NoProc]

Report(op, what) == [op EXCEPT !.reports = Append(@, what)]
\* An end that shows the message and leaves the promise pending.
FinishUnsettled(op, what) == [Report(op, what) EXCEPT !.pc = "done"]
\* An end that asks for the password again after "Incorrect password".
FinishRetries(op, what) ==
    IF what = "AuthFailed" THEN [Report(op, what) EXCEPT !.pc = "prompt"]
    ELSE [Report(op, what) EXCEPT !.pc = "done", !.settled = TRUE]
\* The command shows its last message and settles its promise.
Finish(op, what) == [Report(op, what) EXCEPT !.pc = "done", !.settled = TRUE]

\* registerCommands: each command starts with a listing.
StartCmd ==
    /\ active
    /\ Len(ops) + nRefresh < MaxCmds
    /\ \E kind \in {"switch", "install", "remove"} : ops' = Append(ops, NewOp(kind))
    /\ UNCHANGED << config, reconciler, active, backend, terminals, statusBar, calls,
                    nRefresh, launchLog >>

\* removeVersionDisposable, line 433: the versions offered for removal.
IsNotDefault(r) == ~r.default
Removable(list) == SelectSeq(list, IsNotDefault)

\* The items a command puts in its quick pick.
Offered(kind, list) == IF kind = "remove" THEN Removable(list) ELSE list

\* The command's `rig list --json` / `rig available --json` runs and
\* executeRigCommand's callback settles it; then the command up to its next
\* await.
CmdList ==
    \E i \in 1..Len(ops), why \in {None} \cup Rejections :
        LET op == ops[i]
            list == IF op.kind = "install" THEN Available
                    ELSE Listing(rigInstalled, rigDefault)
            items == Offered(op.kind, list)
        IN
        /\ op.pc = "listing"
        /\ ops' = [ops EXCEPT ![i] =
              IF why # None THEN Finish(op, why)
              ELSE IF items = << >> THEN Finish(op, "NothingToPick")
              ELSE [op EXCEPT !.pc = "pick", !.snap = items]]
        /\ UNCHANGED << config, reconciler, active, backend, terminals, statusBar, calls,
                        nRefresh, launchLog >>

\* A switchToVersion that tries `rig default` unelevated on every platform.
SwitchStartAlwaysTries(op, name) ==
    [op EXCEPT !.ver = name, !.snap = << >>, !.pc = "exec", !.clean = TRUE,
               !.elev = FALSE, !.nSpawn = @ + 1,
               !.proc = ExecProc(op.kind, name)]

\* A switchToVersion that asks for the password first on every platform.
SwitchStartNeverTries(op, name) ==
    [op EXCEPT !.ver = name, !.snap = << >>, !.pc = "prompt", !.clean = TRUE]

\* switchToVersion(versionName), up to its first await: win32 and darwin
\* exec `rig default` at once, every other platform asks for the password.
SwitchStart(op, name) ==
    IF platform \in {"win32", "darwin"}
    THEN [op EXCEPT !.ver = name, !.snap = << >>, !.pc = "exec", !.clean = TRUE,
                    !.elev = FALSE, !.nSpawn = @ + 1,
                    !.proc = ExecProc(op.kind, name)]
    ELSE [op EXCEPT !.ver = name, !.snap = << >>, !.pc = "prompt", !.clean = TRUE]

\* A handleRigOperation that spawns rig unelevated on darwin too.
RigOpStartDarwinTries(op, name) ==
    IF platform \in {"win32", "darwin"}
    THEN [op EXCEPT !.ver = name, !.snap = << >>, !.pc = "spawned", !.clean = TRUE,
                    !.elev = FALSE, !.nSpawn = @ + 1,
                    !.proc = DirectProc(op.kind, name)]
    ELSE [op EXCEPT !.ver = name, !.snap = << >>, !.pc = "prompt", !.clean = TRUE]

\* handleRigOperation(operation, version, rigCommand), up to its first
\* await: win32 spawns rig at once, every other platform asks for the
\* password.
RigOpStart(op, name) ==
    IF platform = "win32"
    THEN [op EXCEPT !.ver = name, !.snap = << >>, !.pc = "spawned", !.clean = TRUE,
                    !.elev = FALSE, !.nSpawn = @ + 1,
                    !.proc = DirectProc(op.kind, name)]
    ELSE [op EXCEPT !.ver = name, !.snap = << >>, !.pc = "prompt", !.clean = TRUE]

\* The user answers the quick pick: an item, or nothing (undefined).
Pick ==
    \E i \in 1..Len(ops) :
        LET op == ops[i] IN
        /\ op.pc = "pick"
        /\ \/ ops' = [ops EXCEPT ![i] = [op EXCEPT !.pc = "done", !.snap = << >>, !.settled = TRUE]]
           \/ \E k \in 1..Len(op.snap) :
                ops' = [ops EXCEPT ![i] =
                    CASE op.kind = "switch" -> SwitchStart(op, op.snap[k].name)
                      [] op.kind = "install" -> RigOpStart(op, op.snap[k].name)
                      [] OTHER -> [op EXCEPT !.ver = op.snap[k].name, !.snap = << >>,
                                             !.pc = "confirm"]]
        /\ UNCHANGED << config, reconciler, active, backend, terminals, statusBar, calls,
                        nRefresh, launchLog >>

\* The user answers "Are you sure you want to uninstall".
Confirm ==
    \E i \in 1..Len(ops) :
        LET op == ops[i] IN
        /\ op.pc = "confirm"
        /\ \/ ops' = [ops EXCEPT ![i] = [op EXCEPT !.pc = "done", !.settled = TRUE]]
           \/ ops' = [ops EXCEPT ![i] = RigOpStart(op, op.ver)]
        /\ UNCHANGED << config, reconciler, active, backend, terminals, statusBar, calls,
                        nRefresh, launchLog >>

\* The user answers the password box: a password (the command spawns
\* sudo -S rig ...), or nothing (undefined: "cancelled").
Prompt ==
    \E i \in 1..Len(ops) :
        LET op == ops[i] IN
        /\ op.pc = "prompt"
        /\ \/ ops' = [ops EXCEPT ![i] =
                  Finish([op EXCEPT !.dismissed = TRUE, !.preSpawn = op.nSpawn], "Cancelled")]
           \/ \E password \in Passwords :
                ops' = [ops EXCEPT ![i] =
                  [op EXCEPT !.pc = "spawned", !.elev = TRUE, !.nSpawn = @ + 1,
                             !.preSpawn = op.nSpawn, !.pw = password,
                             !.proc = SudoProc(op.kind, op.ver, password)]]
        /\ UNCHANGED << config, reconciler, active, backend, terminals, statusBar, calls,
                        nRefresh, launchLog >>

\* --------------------------------------------------- the backend mutates
\* What `rig default|add|rm <arg>` does to the backend when it exits 0.
RigCanSucceed(kind, arg) ==
    CASE kind = "switch" -> arg \in SeqToSet(rigInstalled)
      [] kind = "remove" -> arg \in SeqToSet(rigInstalled)
      [] OTHER -> TRUE
RigInstalledAfter(kind, arg) ==
    CASE kind = "install" ->
            IF InstallName(arg) \in SeqToSet(rigInstalled) THEN rigInstalled
            ELSE Append(rigInstalled, InstallName(arg))
      [] kind = "remove" -> SelectSeq(rigInstalled, LAMBDA n : n # arg)
      [] OTHER -> rigInstalled
RigDefaultAfter(kind, arg) ==
    CASE kind = "switch" -> arg
      [] kind = "remove" -> IF rigDefault = arg THEN None ELSE rigDefault
      [] OTHER -> rigDefault

\* The argument a command hands to rig: `rig default ${versionName}`,
\* spawn(..., [rigCommand, version]).
RigArg(op) == op.proc.args[Len(op.proc.args)]

\* The child of exec / spawn runs: it exits 0 and has changed the backend,
\* or exits non-zero and has not.
RigRun(i, nextpc) ==
    LET op == ops[i] IN
    \E code \in ExitCodes :
        /\ code = 0 => RigCanSucceed(op.kind, RigArg(op))
        /\ ops' = [j \in 1..Len(ops) |->
                     IF j = i THEN [op EXCEPT !.pc = nextpc, !.exit = code,
                                              !.ran = (code = 0)]
                     ELSE IF code = 0 /\ ops[j].kind = "switch" /\ ops[j].ver # None
                          THEN [ops[j] EXCEPT !.clean = FALSE]
                     ELSE ops[j]]
        /\ IF code = 0
           THEN /\ rigInstalled' = RigInstalledAfter(op.kind, RigArg(op))
                /\ rigDefault' = RigDefaultAfter(op.kind, RigArg(op))
           ELSE UNCHANGED backend

ExecRun ==
    /\ \E i \in 1..Len(ops) : ops[i].pc = "exec" /\ RigRun(i, "execDone")
    /\ UNCHANGED << config, reconciler, active, terminals, statusBar, calls, nRefresh, launchLog >>

ProcRun ==
    /\ \E i \in 1..Len(ops) : ops[i].pc = "spawned" /\ RigRun(i, "exited")
    /\ UNCHANGED << config, reconciler, active, terminals, statusBar, calls, nRefresh, launchLog >>

\* spawn fails (sudo or rig not found): the child emits error.
ProcSpawnFails ==
    /\ \E i \in 1..Len(ops) :
        /\ ops[i].pc = "spawned"
        /\ ops' = [ops EXCEPT ![i].pc = "spawnErr", ![i].exit = SpawnFailed]
    /\ UNCHANGED << config, reconciler, active, backend, terminals, statusBar, calls,
                    nRefresh, launchLog >>

\* ------------------------------------------------- the command's handlers
\* How a handler classifies the end of the child.
\* An exec callback that takes exit code 1 for success.
ExecFailedAboveOne(code) == code > 1
\* exec's callback: `if (error)`.
ExecFailed(code) == code # 0
\* A close handler that takes exit code 1 for success.
CloseOutcomeUpToOne(kind, elev, code) ==
    IF code \in {0, 1} THEN "Success" ELSE "OperationFailed"
\* close handlers: `code === 0`, then for install/remove under sudo
\* `code === 1` ("Incorrect password or permission error").
CloseOutcome(kind, elev, code) ==
    IF code = 0 THEN "Success"
    ELSE IF kind # "switch" /\ elev /\ code = 1 THEN "AuthFailed"
    ELSE "OperationFailed"

\* A success tail that restarts the console before it refreshes the
\* indicator.
SwitchSucceedsLaunchFirst(i) ==
    /\ ops' = [ops EXCEPT ![i] =
          [Finish(ops[i], "Success") EXCEPT !.nUpd = @ + 1, !.nLaunch = @ + 1,
               !.tail = @ \o << "launchRConsole(true)", "updateStatusBar()" >>]]
    /\ statusBar' = UpdateStatusBar_bar(statusBar)
    /\ terminals' = LaunchRConsole_terms(terminals, TRUE)
    /\ calls' = LaunchRConsole_calls(UpdateStatusBar_calls(calls), terminals, TRUE)
    /\ Room
\* The success tail of switchToVersion: message, updateStatusBar(),
\* launchRConsole(true), resolve().
SwitchSucceeds(i) ==
    /\ ops' = [ops EXCEPT ![i] =
          [Finish(ops[i], "Success") EXCEPT !.nUpd = @ + 1, !.nLaunch = @ + 1,
               !.tail = @ \o << "updateStatusBar()", "launchRConsole(true)" >>]]
    /\ statusBar' = UpdateStatusBar_bar(statusBar)
    /\ terminals' = LaunchRConsole_terms(terminals, TRUE)
    /\ calls' = LaunchRConsole_calls(UpdateStatusBar_calls(calls), terminals, TRUE)
    /\ Room

\* A success tail of install/remove that also restarts the console.
RigOpSucceedsRestarts(i) ==
    /\ ops' = [ops EXCEPT ![i] =
          [Finish(ops[i], "Success") EXCEPT !.nUpd = @ + 1, !.nLaunch = @ + 1,
               !.tail = @ \o << "updateStatusBar()", "launchRConsole(true)" >>]]
    /\ statusBar' = UpdateStatusBar_bar(statusBar)
    /\ terminals' = LaunchRConsole_terms(terminals, TRUE)
    /\ calls' = LaunchRConsole_calls(UpdateStatusBar_calls(calls), terminals, TRUE)
    /\ Room
\* The success tail of install/remove: message, updateStatusBar(), resolve().
RigOpSucceeds(i) ==
    /\ ops' = [ops EXCEPT ![i] =
          [Finish(ops[i], "Success") EXCEPT !.nUpd = @ + 1,
               !.tail = @ \o << "updateStatusBar()" >>]]
    /\ statusBar' = UpdateStatusBar_bar(statusBar)
    /\ calls' = UpdateStatusBar_calls(calls)
    /\ Room
    /\ UNCHANGED terminals

\* exec(`rig default`)'s callback: win32 lines 120-130, darwin lines 135-148.
ExecCallback ==
    \E i \in 1..Len(ops) :
        LET op == ops[i] IN
        /\ op.pc = "execDone"
        /\ IF ~ExecFailed(op.exit) THEN SwitchSucceeds(i)
           ELSE /\ ops' = [ops EXCEPT ![i] =
                      IF platform = "win32" THEN Finish(op, "OperationFailed")
                      ELSE [op EXCEPT !.pc = "prompt"]]
                /\ UNCHANGED << terminals, statusBar, calls >>
        /\ UNCHANGED << config, reconciler, active, backend, nRefresh, launchLog >>

\* child.on('close'): switchToVersion lines 160-170 and 195-205,
\* handleWindowsRigOperation lines 274-286, handleUnixRigOperation 341-353.
CloseEvent ==
    \E i \in 1..Len(ops) :
        LET op == ops[i]
            out == CloseOutcome(op.kind, op.elev, op.exit)
        IN
        /\ op.pc = "exited"
        /\ IF out = "Success"
           THEN IF op.kind = "switch" THEN SwitchSucceeds(i) ELSE RigOpSucceeds(i)
           ELSE /\ ops' = [ops EXCEPT ![i] = Finish(op, out)]
                /\ UNCHANGED << terminals, statusBar, calls >>
        /\ UNCHANGED << config, reconciler, active, backend, nRefresh, launchLog >>

\* child.on('error'): "Failed to start ... process", reject.  Node may or
\* may not emit close after error.
ErrorEvent ==
    \E i \in 1..Len(ops) :
        LET op == ops[i] IN
        /\ op.pc = "spawnErr"
        /\ \E closeFollows \in BOOLEAN :
            ops' = [ops EXCEPT ![i] =
                [Report(op, "StartFailed") EXCEPT !.settled = TRUE,
                     !.pc = IF closeFollows THEN "exited" ELSE "done"]]
        /\ UNCHANGED << config, reconciler, active, backend, terminals, statusBar, calls,
                        nRefresh, launchLog >>

\* token.onCancellationRequested (install/remove progress): child.kill(),
\* "cancelled" warning, reject.  A child that has not ended yet ends with
\* the signal; one that has ended is not affected.
Cancel ==
    \E i \in 1..Len(ops) :
        LET op == ops[i] IN
        /\ op.kind \in {"install", "remove"}
        /\ op.pc \in {"spawned", "exited"}
        /\ ~op.settled
        /\ ops' = [ops EXCEPT ![i] =
              [Report(op, "Cancelled") EXCEPT !.cancelled = TRUE, !.settled = TRUE,
                   !.pc = "exited",
                   !.exit = IF op.pc = "spawned" THEN Killed ELSE op.exit]]
        /\ UNCHANGED << config, reconciler, active, backend, terminals, statusBar, calls,
                        nRefresh, launchLog >>

\* -------------------------------------------------- manifest reconciler
\* One record per run of checkRenvRequirements(forceCheck).  pc is the await
\* the run is suspended at:
\*   listing   executeRigCommand('rig list --json') is running
\*   prompt    the switch or install prompt is open
\*   await     switchToVersion / handleRigOperation (ops[op]) is pending
\*   done      the run has returned
\* The other fields record the requirement read (req), whether the backend
\* was queried, the prompt shown (offer: "switch" or "install"; cand: the
\* installation or version it names; fallback: the message says "Found
\* compatible version"; cur: the "Currently using" version), the user's
\* answer and the messages shown; listed and list are the listing the run
\* got, nPrompt the prompts it has shown.
NewRec(force) ==
    [force |-> force, pc |-> "start", req |-> None, queried |-> FALSE,
     listed |-> FALSE, list |-> << >>, nPrompt |-> 0,
     offer |-> None, cand |-> None, fallback |-> FALSE, cur |-> None,
     answer |-> None, op |-> 0, reports |-> << >>]

\* The buttons of the two prompts.
ActionButton(offer) ==
    IF offer = "switch" THEN "Switch to Required Version" ELSE "Install Required Version"
Buttons(offer) == {ActionButton(offer), "Not Now"}

\* A test of the answer that takes a closed prompt for consent.
AcceptsUnlessNotNow(offer, choice) == choice # "Not Now"
\* choice === 'Switch to Required Version' / 'Install Required Version'
Accepts(offer, choice) == choice = ActionButton(offer)

\* A message shown only `if (forceCheck)`.
SayIfForced(rec, what) ==
    IF rec.force THEN [rec EXCEPT !.reports = Append(@, what)] ELSE rec
Return(rec) == [rec EXCEPT !.pc = "done"]

\* checkRenvRequirements(forceCheck), lines 587-635: up to its first await.
\* A renv.lock holding null makes `renvData.R` throw; the catch of lines
\* 648-657 reports it.
CheckStart(rec) ==
    IF ~rec.force /\ ~autoCheck THEN Return(rec)
    ELSE IF manifest.file = "noFolder" THEN Return(rec)
    ELSE IF manifest.file = "absent" THEN Return(SayIfForced(rec, "NotFound"))
    ELSE IF manifest.file = "malformed"
         THEN Return(SayIfForced(rec, "ManifestDecodeError"))
    ELSE IF manifest.json.type = "null" THEN Return(SayIfForced(rec, "CheckError"))
    ELSE IF Falsy(RequiredVersion(manifest.json))
         THEN Return(SayIfForced(rec, "NoRequirement"))
    ELSE [rec EXCEPT !.pc = "listing", !.req = RequiredVersion(manifest.json),
                     !.queried = TRUE]

\* activate(), lines 383-387: the timer runs checkRenvRequirements() once.
CheckTimer ==
    /\ active
    /\ Len(recs) < MaxRenv
    /\ \A k \in 1..Len(recs) : recs[k].force
    /\ recs' = Append(recs, CheckStart(NewRec(FALSE)))
    /\ UNCHANGED << config, manifest, active, backend, terminals, statusBar, calls,
                    ops, nRefresh, launchLog >>

\* rig-manager.checkRenvRequirements: checkRenvRequirements(true).
CheckCmd ==
    /\ active
    /\ Len(recs) < MaxRenv
    /\ recs' = Append(recs, CheckStart(NewRec(TRUE)))
    /\ UNCHANGED << config, manifest, active, backend, terminals, statusBar, calls,
                    ops, nRefresh, launchLog >>

\* handleRenvVersionRequirement, lines 666-696: up to its prompt.
\* A prompt whose message never names the compatible version.
HandleRenvVersionRequirementNoLabel(rec, list, cur) ==
    LET k == RequiredVersionInstalled(rec.req, list) IN
    IF k # 0
    THEN [rec EXCEPT !.pc = "prompt", !.offer = "switch", !.cand = list[k].name,
                     !.fallback = FALSE, !.cur = cur, !.nPrompt = @ + 1]
    ELSE [rec EXCEPT !.pc = "prompt", !.offer = "install", !.cand = rec.req,
                     !.cur = cur, !.nPrompt = @ + 1]
HandleRenvVersionRequirement(rec, list, cur) ==
    LET k == RequiredVersionInstalled(rec.req, list) IN
    IF k # 0
    THEN [rec EXCEPT !.pc = "prompt", !.offer = "switch", !.cand = list[k].name,
                     !.fallback = (list[k].version # rec.req), !.cur = cur,
                     !.nPrompt = @ + 1]
    ELSE [rec EXCEPT !.pc = "prompt", !.offer = "install", !.cand = rec.req,
                     !.cur = cur, !.nPrompt = @ + 1]

\* checkRenvRequirements, lines 635-646, after its listing has settled; a
\* failed listing has shown executeRigCommand's message and is caught at
\* lines 648-657.
\* A run that goes on to the prompt although the default is the requirement.
AfterListingNeverSatisfied(rec, res) ==
    LET list == res.list
        d == FindDefault(list)
        cur == IF d # 0 THEN list[d].version ELSE "unknown"
        got == [rec EXCEPT !.listed = TRUE, !.list = list]
    IN
    IF ~res.ok THEN Return(SayIfForced([rec EXCEPT !.reports = Append(@, res.why)],
                                       "CheckError"))
    ELSE HandleRenvVersionRequirement(got, list, cur)
AfterListing(rec, res) ==
    LET list == res.list
        d == FindDefault(list)
        cur == IF d # 0 THEN list[d].version ELSE "unknown"
        got == [rec EXCEPT !.listed = TRUE, !.list = list]
    IN
    IF ~res.ok THEN Return(SayIfForced([rec EXCEPT !.reports = Append(@, res.why)],
                                       "CheckError"))
    ELSE IF d # 0 /\ list[d].version = rec.req
         THEN Return(SayIfForced(got, "AlreadySatisfied"))
    ELSE HandleRenvVersionRequirement(got, list, cur)

RenvList ==
    \E i \in 1..Len(recs) :
      \E res \in {OkResult(Listing(rigInstalled, rigDefault))}
                  \cup {ErrResult(why) : why \in Rejections} :
        /\ recs[i].pc = "listing"
        /\ recs' = [recs EXCEPT ![i] = AfterListing(recs[i], res)]
        /\ UNCHANGED << config, manifest, active, backend, terminals, statusBar,
                        calls, ops, nRefresh, launchLog >>

\* The user answers the prompt: the action button, 'Not Now', or closes it
\* (undefined).  On the action button the run calls switchToVersion(name) or
\* handleRigOperation('install', version, 'add') and awaits it.
RenvAnswer ==
    \E i \in 1..Len(recs) :
      \E choice \in Buttons(recs[i].offer) \cup {Undefined} :
        LET rec == recs[i] IN
        /\ rec.pc = "prompt"
        /\ IF Accepts(rec.offer, choice)
           THEN /\ ops' = Append(ops,
                      IF rec.offer = "switch" THEN SwitchStart(NewOp("switch"), rec.cand)
                      ELSE RigOpStart(NewOp("install"), rec.cand))
                /\ recs' = [recs EXCEPT ![i] =
                      [rec EXCEPT !.pc = "await", !.answer = choice, !.op = Len(ops) + 1]]
           ELSE /\ recs' = [recs EXCEPT ![i] = Return([rec EXCEPT !.answer = choice])]
                /\ UNCHANGED ops
        /\ UNCHANGED << config, manifest, active, backend, terminals, statusBar,
                        calls, nRefresh, launchLog >>

\* Whether the promise of switchToVersion / handleRigOperation was rejected:
\* its first settling decides; a dismissed password box rejects in
\* switchToVersion and returns in handleUnixRigOperation.
Rejected(op) ==
    /\ op.settled /\ op.reports # << >>
    /\ \/ op.reports[1] \in {"OperationFailed", "AuthFailed", "StartFailed"}
       \/ op.reports[1] = "Cancelled" /\ ~(op.dismissed /\ op.kind # "switch")

\* The awaited call has settled: the run returns, through the catch of lines
\* 648-657 when it was rejected.
RenvSettle ==
    \E i \in 1..Len(recs) :
        LET rec == recs[i] IN
        /\ rec.pc = "await"
        /\ ops[rec.op].settled
        /\ recs' = [recs EXCEPT ![i] =
              IF Rejected(ops[rec.op]) THEN Return(SayIfForced(rec, "CheckError"))
              ELSE Return(rec)]
        /\ UNCHANGED << config, manifest, active, backend, terminals, statusBar,
                        calls, ops, nRefresh, launchLog >>

\* ------------------------------------------------------ console harness
\* The user changes rig-manager.rConsole.autoLaunch in the settings.
SetAutoLaunch ==
    /\ autoLaunch' = ~autoLaunch
    /\ UNCHANGED << platform, statusVisible, provider, autoCheck, reconciler, active,
                    backend, terminals, statusBar, calls, ops, nRefresh, launchLog >>

\* The user opens a terminal of their own (vscode.window.terminals holds it).
ShellTerminal == [name |-> "bash", shellPath |-> "/bin/bash"]
OpenShell ==
    /\ \A k \in 1..Len(terminals) : terminals[k] # ShellTerminal
    /\ terminals' = Append(terminals, ShellTerminal)
    /\ UNCHANGED << config, reconciler, active, backend, statusBar, calls, ops,
                    nRefresh, launchLog >>

\* A direct call launchRConsole(forceNew), as the contract ensure(forceNew).
Ensure ==
    /\ Len(launchLog) < MaxEnsure
    /\ \E forceNew \in BOOLEAN :
        /\ launchLog' = Append(launchLog,
                            [forceNew |-> forceNew, autoLaunch |-> autoLaunch])
        /\ terminals' = LaunchRConsole_terms(terminals, forceNew)
        /\ calls' = LaunchRConsole_calls(calls, terminals, forceNew)
        /\ Room
    /\ UNCHANGED << config, reconciler, active, backend, statusBar, ops, nRefresh >>

Next ==
    \/ Activate
    \/ RefreshCmd
    \/ StartCmd
    \/ CmdList
    \/ Pick
    \/ Confirm
    \/ Prompt
    \/ ExecRun
    \/ ProcRun
    \/ ProcSpawnFails
    \/ ExecCallback
    \/ CloseEvent
    \/ ErrorEvent
    \/ Cancel
    \/ CallRun
    \/ StatusCallback
    \/ ConsoleCallback
    \/ ProviderCreate

Spec == Init /\ [][Next]_vars

\* The commands alone, after activate() has run with the indicator and the
\* console auto-launch switched off, so that no listing but the commands'
\* own is ever in flight.  Every process that was started runs and ends or
\* fails to start, every event is delivered, every listing returns and
\* every quick pick, confirmation and password box is answered or closed.
InitOps ==
    /\ platform \in Platforms
    /\ autoLaunch = FALSE /\ statusVisible = FALSE /\ provider = FALSE
    /\ autoCheck = TRUE
    /\ manifest = NoFolder
    /\ recs = << >>
    /\ active = TRUE
    /\ \E b \in InitBackends : rigInstalled = b[1] /\ rigDefault = b[2]
    /\ terminals = << >>
    /\ statusBar = [visible |-> FALSE, text |-> ""]
    /\ calls = EmptyBag
    /\ ops = << >>
    /\ nRefresh = 0
    /\ launchLog = << >>

NextOps ==
    \/ StartCmd
    \/ CmdList
    \/ Pick
    \/ Confirm
    \/ Prompt
    \/ ExecRun
    \/ ProcRun
    \/ ProcSpawnFails
    \/ ExecCallback
    \/ CloseEvent
    \/ ErrorEvent
    \/ Cancel

OpsFairness ==
    /\ WF_vars(CmdList)
    /\ WF_vars(Pick) /\ WF_vars(Confirm) /\ WF_vars(Prompt)
    /\ WF_vars(ExecRun) /\ WF_vars(ProcRun \/ ProcSpawnFails)
    /\ WF_vars(ExecCallback) /\ WF_vars(CloseEvent) /\ WF_vars(ErrorEvent)

SpecOps == InitOps /\ [][NextOps]_vars /\ OpsFairness

\* ------------------------------------------------------ backend adapter
\* executeRigCommand on the text its process printed.  A text is a sequence
\* of characters; the ones that matter to the adapter are the double quote,
\* the backslash, letters, the colon, and the newline that ends the output.
DQ == "\""
BS == "\\"
NL == "\n"
Letters == {"C", "n"}
ValueChars == {DQ, BS, ":"} \cup Letters
PathChars == {BS} \cup Letters

\* What rig holds and prints: an array of string fields.  A field is a path
\* (a drive letter, a colon, and what follows) or any other value that does
\* not start like one.
SeqsUpTo(S, n) == UNION {[1..k -> S] : k \in 0..n}
PathShaped(v) == Len(v) >= 2 /\ v[1] \in Letters /\ v[2] = ":"
PathValues == {<< "C", ":" >> \o t : t \in SeqsUpTo(PathChars, MaxPath)}
PlainValues == {v \in SeqsUpTo(ValueChars, MaxValue) : ~PathShaped(v)}
Documents ==
    {<< v >> : v \in PathValues \cup PlainValues}
    \cup {<< v, w >> : v \in PathValues, w \in PlainValues}
    \cup {<< w, v >> : v \in PathValues, w \in PlainValues}

\* rig's printer: a value as a JSON string literal, and with the Windows
\* quirk a path with its backslashes left as they are.
RECURSIVE JsonEscape(_)
JsonEscape(v) ==
    IF v = << >> THEN << >>
    ELSE (CASE Head(v) = DQ -> << BS, DQ >>
            [] Head(v) = BS -> << BS, BS >>
            [] Head(v) = NL -> << BS, "n" >>
            [] OTHER -> << Head(v) >>) \o JsonEscape(Tail(v))
Literal(v, quirk) ==
    << DQ >> \o (IF quirk /\ PathShaped(v) THEN v ELSE JsonEscape(v)) \o << DQ >>
RECURSIVE Joined(_, _)
Joined(fields, quirk) ==
    IF Len(fields) = 1 THEN Literal(fields[1], quirk)
    ELSE Literal(fields[1], quirk) \o << "," >> \o Joined(Tail(fields), quirk)
RigPrints(fields, quirk) == << "[" >> \o Joined(fields, quirk) \o << "]", NL >>

\* stdout.trim()
Whitespace == {NL, " "}
RECURSIVE TrimStart(_)
TrimStart(s) ==
    IF s # << >> /\ Head(s) \in Whitespace THEN TrimStart(Tail(s)) ELSE s
RECURSIVE TrimEnd(_)
TrimEnd(s) ==
    IF s # << >> /\ s[Len(s)] \in Whitespace THEN TrimEnd(SubSeq(s, 1, Len(s) - 1))
    ELSE s
Trim(s) == TrimEnd(TrimStart(s))

\* path.replace(/\\/g, '\\\\')
RECURSIVE EscapeBackslashes(_)
EscapeBackslashes(p) ==
    IF p = << >> THEN << >>
    ELSE (IF Head(p) = BS THEN << BS, BS >> ELSE << Head(p) >>)
         \o EscapeBackslashes(Tail(p))

\* cleanOutput.replace(/"([A-Za-z]:[^"]*?)"/g, ...): from left to right,
\* a quote followed by a letter and a colon matches up to the next quote,
\* the backslashes between the two quotes are doubled, and the search goes
\* on behind the match.
NextQuote(s) ==
    IF \E j \in 4..Len(s) : s[j] = DQ
    THEN CHOOSE j \in 4..Len(s) : s[j] = DQ /\ \A k \in 4..(j - 1) : s[k] # DQ
    ELSE 0
RECURSIVE Sanitize(_)
Sanitize(s) ==
    IF s = << >> THEN << >>
    ELSE IF /\ Len(s) >= 4 /\ s[1] = DQ /\ s[2] \in Letters /\ s[3] = ":"
            /\ NextQuote(s) # 0
         THEN << DQ >> \o EscapeBackslashes(SubSeq(s, 2, NextQuote(s) - 1)) \o << DQ >>
              \o Sanitize(SubSeq(s, NextQuote(s) + 1, Len(s)))
         ELSE << Head(s) >> \o Sanitize(Tail(s))

\* JSON.parse on the texts above: an array of string literals.  Inside a
\* literal a backslash must start an escape; of the characters here the
\* quote, the backslash and n can follow it.  text is what is left to read.
ParseFails == [ok |-> FALSE, value |-> << >>, rest |-> << >>]
RECURSIVE ParseString(_)
ParseString(text) ==
    IF text = << >> \/ Head(text) = NL THEN ParseFails
    ELSE IF Head(text) = DQ THEN [ok |-> TRUE, value |-> << >>, rest |-> Tail(text)]
    ELSE IF Head(text) = BS
         THEN IF Len(text) < 2 \/ text[2] \notin {DQ, BS, "n"} THEN ParseFails
              ELSE LET more == ParseString(SubSeq(text, 3, Len(text))) IN
                   IF ~more.ok THEN ParseFails
                   ELSE [more EXCEPT !.value =
                            << IF text[2] = "n" THEN NL ELSE text[2] >> \o @]
    ELSE LET more == ParseString(Tail(text)) IN
         IF ~more.ok THEN ParseFails
         ELSE [more EXCEPT !.value = << Head(text) >> \o @]
RECURSIVE ParseElements(_)
ParseElements(text) ==
    IF text = << >> \/ Head(text) # DQ THEN ParseFails
    ELSE LET str == ParseString(Tail(text)) IN
         IF ~str.ok \/ str.rest = << >> THEN ParseFails
         ELSE IF str.rest = << "]" >>
              THEN [ok |-> TRUE, value |-> << str.value >>, rest |-> << >>]
         ELSE IF Head(str.rest) # "," THEN ParseFails
         ELSE LET more == ParseElements(Tail(str.rest)) IN
              IF ~more.ok THEN ParseFails
              ELSE [more EXCEPT !.value = << str.value >> \o @]
JsonParse(text) ==
    IF text = << >> \/ Head(text) # "[" THEN ParseFails
    ELSE ParseElements(Tail(text))

\* executeRigCommand's exec callback, lines 20-50: what the promise settles
\* with, the message shown and what console.error got.
ExecuteRigCommand(error, stdout) ==
    IF error
    THEN [ok |-> FALSE, list |-> << >>, why |-> "BackendUnavailable",
          shown |-> << "BackendUnavailable" >>, logged |-> << >>]
    ELSE LET cleanOutput == IF platform = "win32" THEN Sanitize(Trim(stdout))
                            ELSE Trim(stdout)
             result == JsonParse(cleanOutput)
         IN IF result.ok
            THEN [ok |-> TRUE, list |-> result.value, why |-> None,
                  shown |-> << >>, logged |-> << >>]
            ELSE [ok |-> FALSE, list |-> << >>, why |-> "MalformedOutput",
                  shown |-> << "MalformedOutput" >>, logged |-> << stdout >>]

\* One executeRigCommand call whose process has ended: fields is what rig
\* held, quirk whether it printed paths the Windows way.
AdapterCall(error, fields, quirk) ==
    [purpose |-> "adapter", force |-> FALSE, phase |-> "run", res |-> NoResult,
     error |-> error, fields |-> fields, quirk |-> quirk,
     stdout |-> IF error THEN << >> ELSE RigPrints(fields, quirk)]

InitAdapter ==
    /\ platform \in Platforms
    /\ autoLaunch = FALSE /\ statusVisible = FALSE /\ provider = FALSE
    /\ autoCheck = TRUE
    /\ manifest = NoFolder
    /\ recs = << >>
    /\ active = TRUE
    /\ \E b \in InitBackends : rigInstalled = b[1] /\ rigDefault = b[2]
    /\ terminals = << >>
    /\ statusBar = [visible |-> FALSE, text |-> ""]
    /\ \E fields \in Documents, quirk \in BOOLEAN :
          calls = SetToBag({AdapterCall(FALSE, fields, quirk)})
    /\ ops = << >>
    /\ nRefresh = 0
    /\ launchLog = << >>

AdapterCallback ==
    \E c \in BagToSet(calls) :
        /\ c.purpose = "adapter" /\ c.phase = "run"
        /\ calls' = (calls (-) SetToBag({c}))
              (+) SetToBag({[c EXCEPT !.phase = "read",
                                      !.res = ExecuteRigCommand(c.error, c.stdout)]})
        /\ UNCHANGED << config, reconciler, active, backend, terminals, statusBar, ops,
                        nRefresh, launchLog >>

\* The exec of the call fails instead (rig missing, non-zero exit).
AdapterExecFails ==
    \E c \in BagToSet(calls) :
        /\ c.purpose = "adapter" /\ c.phase = "run"
        /\ calls' = (calls (-) SetToBag({c}))
              (+) SetToBag({[c EXCEPT !.phase = "read", !.error = TRUE,
                                      !.res = ExecuteRigCommand(TRUE, c.stdout)]})
        /\ UNCHANGED << config, reconciler, active, backend, terminals, statusBar, ops,
                        nRefresh, launchLog >>

NextAdapter ==
    \/ AdapterCallback
    \/ AdapterExecFails

SpecAdapter == InitAdapter /\ [][NextAdapter]_vars

\* The console lifecycle manager alone, driven through its contract.
NextEnsure ==
    \/ Ensure
    \/ SetAutoLaunch
    \/ OpenShell
    \/ CallRun
    \/ ConsoleCallback
    \/ ProviderCreate

SpecEnsure == Init /\ [][NextEnsure]_vars

\* The manifest reconciler with the default settings, over the workspaces
\* and backends of Manifests and RenvBackends.  Its runs start where
\* activate() has run and its two listings have returned: the indicator shows
\* the default and the console of the default, if there is one, is open.
ActivatedTerminals(inst, def) ==
    IF ConsoleCreates(OkResult(Listing(inst, def)))
    THEN << [name |-> R_CONSOLE_NAME, shellPath |-> BinaryOf(def)] >>
    ELSE << >>

InitRenv ==
    /\ platform \in Platforms
    /\ autoLaunch = TRUE /\ statusVisible = TRUE /\ provider = FALSE
    /\ \E c \in RenvCases :
          /\ autoCheck = c[1] /\ manifest = c[2]
          /\ rigInstalled = c[3][1] /\ rigDefault = c[3][2]
    /\ recs = << >>
    /\ active = TRUE
    /\ terminals = ActivatedTerminals(rigInstalled, rigDefault)
    /\ statusBar = StatusRender(OkResult(Listing(rigInstalled, rigDefault)))
    /\ calls = EmptyBag
    /\ ops = << >>
    /\ nRefresh = 0
    /\ launchLog = << >>

NextRenv ==
    \/ CheckTimer
    \/ CheckCmd
    \/ RenvList
    \/ RenvAnswer
    \/ RenvSettle
    \/ Prompt
    \/ ExecRun
    \/ ProcRun
    \/ ProcSpawnFails
    \/ ExecCallback
    \/ CloseEvent
    \/ ErrorEvent
    \/ Cancel
    \/ CallRun
    \/ StatusCallback
    \/ ConsoleCallback

SpecRenv == InitRenv /\ [][NextRenv]_vars

\* ================================================================ claims
InFlight(op) == op.pc \in {"exec", "execDone", "spawned", "spawnErr", "exited"}
Reported(op, what) == \E k \in 1..Len(op.reports) : op.reports[k] = what
DefaultFlagged(list) == {list[k].name : k \in {j \in 1..Len(list) : list[j].default}}

\* C1: with console auto-launch enabled and no external R provider, at most
\* one live terminal named 'R Console' exists in every reachable state.
C1_AtMostOneConsole ==
    (autoLaunch /\ ~provider) => CountConsoles <= 1

\* C2: when the listing callback of a forced launchRConsole(true) completes
\* (here: in its favourable case, the listing succeeded and names a default),
\* exactly one live 'R Console' exists.
C2_ForcedRefreshYieldsOne ==
    [][\A c \in BagToSet(calls) :
          ( /\ c.purpose = "console" /\ c.force /\ c.phase = "read"
            /\ ConsoleCreates(c.res)
            /\ calls' = calls (-) SetToBag({c})
            /\ Len(terminals') = Len(terminals) + 1 )
          => CountConsoles' = 1]_vars

\* C3: two consecutive calls launchRConsole(false) create at most one
\* console in total, whenever the first call's listing callback returns.
C3_EnsureIdempotent ==
    ( Len(launchLog) = 2 /\ \A k \in 1..2 : ~launchLog[k].forceNew ) =>
        CountConsoles <= 1

\* C4: at most one mutating backend operation (rig default, add, rm) is in
\* flight at any time.
C4_SingleFlight ==
    Cardinality({i \in 1..Len(ops) : InFlight(ops[i])}) <= 1

\* C5: the version handed to `rig rm` is not the backend's default at the
\* moment the remove process is spawned.
C5_RemoveNeverDefault ==
    [][\A i \in 1..Len(ops) :
          (ops[i].kind = "remove" /\ ops[i].pc # "spawned" /\ ops'[i].pc = "spawned")
          => RigArg(ops'[i]) # rigDefault]_vars

\* C6: a step in which a command handles the failure of its mutating
\* operation (the child ended with a non-zero exit code or could not be
\* started, or the password box was dismissed) leaves the indicator, the
\* terminals, the listings in flight and the backend as they were; and the
\* child that exits non-zero leaves the backend as it was.
C6_FailureStep(i) ==
    \/ ops[i].pc \in {"execDone", "exited", "spawnErr"} /\ ops[i].exit # 0
       /\ ops'[i].pc # ops[i].pc
    \/ ops[i].pc = "prompt" /\ ops'[i].dismissed
    \/ ops[i].pc \in {"exec", "spawned"} /\ ops'[i].pc \in {"execDone", "exited"}
       /\ ops'[i].exit # 0
C6_FailureNoSideEffects ==
    [][\A i \in 1..Len(ops) :
          C6_FailureStep(i) =>
              UNCHANGED << statusBar, terminals, calls, rigInstalled, rigDefault >>]_vars
C6_Witness ==
    \E i \in 1..Len(ops) :
        /\ ops[i].pc = "done" /\ ops[i].kind = "switch" /\ ops[i].exit # 0
        /\ Reported(ops[i], "OperationFailed")
        /\ statusBar.visible /\ CountConsoles = 1

\* C7: after a switch to V has reported success, and as long as no other
\* command's process has changed the backend since the switch chose V, the
\* installed-version listing flags V as default and no other entry.
C7_SwitchRoundTrip ==
    \A i \in 1..Len(ops) :
        (ops[i].kind = "switch" /\ Reported(ops[i], "Success") /\ ops[i].clean)
        => DefaultFlagged(Listing(rigInstalled, rigDefault)) = {ops[i].ver}
C7_Witness ==
    \E i \in 1..Len(ops) :
        /\ ops[i].kind = "switch" /\ Reported(ops[i], "Success") /\ ops[i].clean
        /\ ops[i].ver = "4.3-x" /\ Len(rigInstalled) = 2

\* C8: a cancelled install or remove reports Cancelled and nothing else: no
\* OperationFailed and no AuthFailed, whatever the close event carries.
C8_CancelOnlyCancelled ==
    \A i \in 1..Len(ops) :
        ops[i].cancelled =>
            \A k \in 1..Len(ops[i].reports) : ops[i].reports[k] = "Cancelled"

\* C9: once cancellation of an install or remove has been requested, no
\* later step of that command refreshes the indicator, reports success or
\* changes a console.
C9_NoMutationAfterCancel ==
    [][\A i \in 1..Len(ops) :
          (ops[i].cancelled /\ ops'[i] # ops[i])
          => /\ UNCHANGED << statusBar, calls, terminals >>
             /\ ~Reported(ops'[i], "Success")]_vars

\* C10 (as stated): a command whose password box was dismissed ends as
\* Cancelled and has spawned no process, before or after the box.
C10_DismissNoSpawn ==
    \A i \in 1..Len(ops) :
        ops[i].dismissed =>
            /\ ops[i].pc = "done"
            /\ ops[i].reports[Len(ops[i].reports)] = "Cancelled"
            /\ ops[i].nSpawn = 0

\* C10 (amended): a command whose password box was dismissed ends as
\* Cancelled, spawns nothing after the box and nothing under sudo; before
\* the box it has spawned nothing, except a switch on darwin, which has
\* spawned its one unelevated `rig default`, and that attempt had failed.
C10_DismissNoSpawnAfter ==
    \A i \in 1..Len(ops) :
        ops[i].dismissed =>
            /\ ops[i].pc = "done"
            /\ ops[i].reports = << "Cancelled" >>
            /\ ops[i].nSpawn = ops[i].preSpawn
            /\ ~ops[i].elev
            /\ IF platform = "darwin" /\ ops[i].kind = "switch"
               THEN ops[i].preSpawn = 1 /\ ops[i].exit # 0 /\ ~ops[i].ran
               ELSE ops[i].preSpawn = 0
C10_Witness ==
    \E i \in 1..Len(ops) :
        /\ ops[i].dismissed /\ platform = "darwin" /\ ops[i].kind = "switch"
        /\ ops[i].preSpawn = 1

\* C11: a command whose last process ran under sudo and has ended reports
\* Success on exit code 0, AuthFailed on exit code 1 and OperationFailed on
\* every other exit code; a command that never ran under sudo never reports
\* AuthFailed.
C11_ExitClassification ==
    \A i \in 1..Len(ops) :
        LET op == ops[i] IN
        /\ (op.pc = "done" /\ op.elev /\ op.exit \in ExitCodes) =>
               Reported(op, CASE op.exit = 0 -> "Success"
                              [] op.exit = 1 -> "AuthFailed"
                              [] OTHER -> "OperationFailed")
        /\ ~op.elev => ~Reported(op, "AuthFailed")

\* C12: the password the user typed occurs neither in the argument list nor in
\* the environment of the process the command started: the process is sudo,
\* and the command wrote the password and a newline to its standard input
\* once and then closed it; a process started without a password is given
\* nothing on its standard input.
C12_CredentialOnlyOnStdin ==
    \A i \in 1..Len(ops) :
        LET op == ops[i] IN
        IF op.pw = None THEN op.proc.stdin = << >>
        ELSE /\ op.pw \notin SeqToSet(op.proc.args)
             /\ op.pw \notin op.proc.env
             /\ op.proc.cmd = "sudo"
             /\ op.proc.stdin = << [call |-> "write", data |-> << op.pw, "\n" >>],
                                   [call |-> "end", data |-> << >>] >>
C12_Witness ==
    \E i \in 1..Len(ops) :
        /\ ops[i].pw \in Passwords /\ ops[i].kind = "remove" /\ ops[i].pc = "done"
        /\ ops[i].ran

\* ------------------------------------------------ manifest reconciliation
\* The major and minor components of the version strings, as numbers.
MajorMinor(v) ==
    CASE v = "4.2.0" -> << 4, 2 >>
      [] v \in {"4.3.0", "4.3.1", "4.3.2"} -> << 4, 3 >>
      [] OTHER -> << 5, 0 >>
Least(S) == CHOOSE k \in S : \A j \in S : k <= j
ExactEntries(R, L) == {k \in 1..Len(L) : L[k].version = R}
CompatibleEntries(R, L) == {k \in 1..Len(L) : MajorMinor(L[k].version) = MajorMinor(R)}
\* The default's version in a listing differs from R (or there is no default).
DefaultDiffers(R, L) == \A k \in 1..Len(L) : L[k].default => L[k].version # R
\* The workspaces whose renv.lock is well formed and requires no version.
NoRequirementManifests ==
    {m \in Manifests : m.file = "json" /\ RequiredVersion(m.json) \notin Requirements}

\* C13: the candidate a run resolves from requirement R and listing L is the
\* first entry of L whose version is R if there is one, else the first entry
\* with R's major and minor, else none (the run offers an install).
C13_CandidateResolution ==
    \A i \in 1..Len(recs) :
        LET rec == recs[i]
            L == rec.list
            R == rec.req
        IN rec.offer # None =>
            IF ExactEntries(R, L) # {}
            THEN rec.offer = "switch" /\ rec.cand = L[Least(ExactEntries(R, L))].name
            ELSE IF CompatibleEntries(R, L) # {}
            THEN rec.offer = "switch" /\ rec.cand = L[Least(CompatibleEntries(R, L))].name
            ELSE rec.offer = "install"
\* An exact match chosen although a compatible entry precedes it.
C13_Witness ==
    \E i \in 1..Len(recs) :
        /\ recs[i].req = "4.3.1" /\ recs[i].cand = "4.3-x"
        /\ Len(recs[i].list) = 2 /\ recs[i].list[1].version = "4.3.2"

\* C14: a run that has listed L and found the default's version different
\* from R has shown exactly one prompt: to switch to the exact match, not
\* labelled compatible, when L has version R; else to switch to a version of
\* R's major.minor, labelled compatible; else to install exactly R.
C14_OnePrompt ==
    \A i \in 1..Len(recs) :
        LET rec == recs[i]
            L == rec.list
            R == rec.req
        IN (rec.listed /\ DefaultDiffers(R, L)) =>
            /\ rec.nPrompt = 1
            /\ IF ExactEntries(R, L) # {}
               THEN rec.offer = "switch" /\ VersionOf(rec.cand) = R /\ ~rec.fallback
               ELSE IF CompatibleEntries(R, L) # {}
               THEN /\ rec.offer = "switch" /\ rec.fallback
                    /\ MajorMinor(VersionOf(rec.cand)) = MajorMinor(R)
                    /\ rec.cand \in {L[k].name : k \in 1..Len(L)}
               ELSE rec.offer = "install" /\ rec.cand = R /\ ~rec.fallback
\* R = 4.3.1 with only 4.3.2 installed: a switch to 4.3.2 labelled compatible.
C14_Witness ==
    \E i \in 1..Len(recs) :
        /\ recs[i].req = "4.3.1" /\ recs[i].listed /\ Len(recs[i].list) = 1
        /\ recs[i].offer = "switch" /\ recs[i].cand = "4.3.2" /\ recs[i].fallback

\* C15: a run that finds a renv.lock it cannot parse has reported the decode
\* error, has not queried the backend and has shown no prompt, whatever
\* forceCheck is.
C15_DecodeErrorReported ==
    \A i \in 1..Len(recs) :
        (manifest = Malformed /\ recs[i].pc = "done") =>
            /\ recs[i].reports = << "ManifestDecodeError" >>
            /\ ~recs[i].queried /\ recs[i].nPrompt = 0

\* C16: a run whose listing flags as default a version equal to the
\* requirement has returned without a prompt and without starting a switch
\* or an install, and has reported 'already satisfied' iff forceCheck.
C16_AlreadySatisfied ==
    \A i \in 1..Len(recs) :
        LET rec == recs[i] IN
        (rec.listed /\ ~DefaultDiffers(rec.req, rec.list)) =>
            /\ rec.pc = "done" /\ rec.nPrompt = 0 /\ rec.offer = None /\ rec.op = 0
            /\ rec.reports = IF rec.force THEN << "AlreadySatisfied" >> ELSE << >>
C16_Witness ==
    \E i \in 1..Len(recs) :
        /\ recs[i].listed /\ recs[i].req = "4.3.1" /\ rigDefault = "4.3-x"
        /\ recs[i].reports = << "AlreadySatisfied" >>

\* C17: with no renv.lock (or no workspace folder) a run has reported 'not
\* found' iff forceCheck, has not queried the backend and has shown no prompt.
C17_AbsentManifest ==
    \A i \in 1..Len(recs) :
        (manifest \in {NoFolder, Absent} /\ recs[i].pc = "done") =>
            /\ recs[i].reports = IF recs[i].force THEN << "NotFound" >> ELSE << >>
            /\ ~recs[i].queried /\ recs[i].nPrompt = 0

\* C18: with a well-formed renv.lock that requires no version a run has
\* reported 'no requirement declared' iff forceCheck, has not queried the
\* backend and has shown no prompt.
C18_NoRequirement ==
    \A i \in 1..Len(recs) :
        (manifest \in NoRequirementManifests /\ recs[i].pc = "done") =>
            /\ recs[i].reports = IF recs[i].force THEN << "NoRequirement" >> ELSE << >>
            /\ ~recs[i].queried /\ recs[i].nPrompt = 0

\* C19: a switch or install starts only in the step in which the user
\* accepts the prompt that offers it; the step in which the prompt is
\* declined or closed starts no command and leaves the backend, the
\* indicator, the terminals and the listings in flight as they were.
C19_OnlyOnAccept ==
    [][/\ Len(ops') > Len(ops) =>
            \E i \in 1..Len(recs) :
                /\ recs[i].pc = "prompt" /\ recs'[i].pc = "await"
                /\ recs'[i].answer = ActionButton(recs[i].offer)
                /\ ops'[Len(ops')].kind =
                       (IF recs[i].offer = "switch" THEN "switch" ELSE "install")
       /\ \A i \in 1..Len(recs) :
            (recs[i].pc = "prompt" /\ recs'[i].answer \in {"Not Now", Undefined}) =>
                /\ recs'[i].pc = "done" /\ recs'[i].op = 0
                /\ UNCHANGED << ops, backend, statusBar, terminals, calls >>]_vars
C19_Witness ==
    \E i \in 1..Len(recs) :
        /\ recs[i].pc = "done" /\ recs[i].answer = Undefined /\ recs[i].offer = "install"
        /\ ops = << >>

\* ------------------------------------------------------- status publisher
\* The steps that call updateStatusBar(): activation, the refresh command and
\* the success tail of a command.
CallsUpdateStatusBar ==
    \/ ~active /\ active'
    \/ nRefresh' = nRefresh + 1
    \/ \E i \in 1..Len(ops) : Len(ops') = Len(ops) /\ ops'[i].nUpd = ops[i].nUpd + 1
NoMutationSpawned ==
    /\ UNCHANGED backend
    /\ \A i \in 1..Len(ops) : Len(ops') = Len(ops) /\ ops'[i].nSpawn = ops[i].nSpawn

\* C20: updateStatusBar with the toggle off hides the indicator and starts no
\* listing; with the toggle on it starts one listing, and the step in which
\* that listing's callback runs hides the indicator when the listing failed
\* or could not be decoded, and else shows it with the version of the entry
\* flagged default, or 'Not set' when no entry is flagged.  Neither step
\* spawns a mutating rig process or changes the backend.
C20_StatusPublisher ==
    [][/\ CallsUpdateStatusBar =>
            /\ NoMutationSpawned
            /\ IF ~statusVisible
               THEN /\ ~statusBar'.visible
                    /\ \A c \in BagToSet(calls') : c.purpose # "status"
               ELSE /\ CopiesIn(StatusCall, calls') = CopiesIn(StatusCall, calls) + 1
                    /\ statusBar' = statusBar
       /\ \A c \in BagToSet(calls) :
            ( c.purpose = "status" /\ c.phase = "read"
              /\ calls' = calls (-) SetToBag({c}) ) =>
                /\ NoMutationSpawned
                /\ statusBar'.visible = (c.res.why \notin Rejections)
                /\ statusBar'.visible =>
                      \/ \E k \in 1..Len(c.res.list) :
                            c.res.list[k].default /\ statusBar'.text = c.res.list[k].version
                      \/ /\ DefaultFlagged(c.res.list) = {}
                         /\ statusBar'.text = "Not set"]_vars
\* The indicator showed a version and a later listing failed: it is hidden.
C20_Witness ==
    /\ statusVisible /\ ~statusBar.visible /\ statusBar.text = "4.2.0"
    /\ calls = EmptyBag

\* C21: a listing that fails because the backend is unavailable degrades
\* gracefully: the step in which updateStatusBar's callback gets the failure
\* hides the indicator, the step in which launchBasicRConsole's callback gets
\* it leaves the terminals as they are, and the step in which
\* checkRenvRequirements gets it ends the run with no prompt and no message.
C21_GracefulDegradation ==
    [][/\ \A c \in BagToSet(calls) :
            ( c.phase = "read" /\ c.res.why = "BackendUnavailable"
              /\ calls' = calls (-) SetToBag({c}) ) =>
                /\ c.purpose = "status" => ~statusBar'.visible
                /\ c.purpose = "console" => terminals' = terminals
       /\ \A i \in 1..Len(recs) :
            ( /\ recs[i].pc = "listing" /\ recs'[i].pc # "listing"
              /\ ~recs'[i].listed
              /\ ~Reported(recs'[i], "MalformedOutput") ) =>
                /\ recs'[i].pc = "done"
                /\ recs'[i].nPrompt = 0
                /\ recs'[i].reports = << >>]_vars

\* C22: every failure is surfaced to the user where it is recovered: a
\* command that has ended after it spawned a process, or after its password
\* box was dismissed or it was cancelled, has shown its outcome, and a
\* reconcile run that has ended after a failure (a manifest that does not decode, a rejected
\* listing, no installed candidate, a rejected switch or install) has shown
\* a message or a prompt, or the operation it awaited has shown one.
OpAttempted(op) == op.nSpawn > 0 \/ op.dismissed \/ op.cancelled
RunFailed(rec) ==
    \/ (rec.force \/ autoCheck) /\ manifest.file = "malformed"
    \/ rec.queried /\ ~rec.listed
    \/ rec.offer = "install"
    \/ rec.op # 0 /\ Rejected(ops[rec.op])
RunSurfaced(rec) ==
    \/ rec.reports # << >>
    \/ rec.nPrompt > 0
    \/ rec.op # 0 /\ ops[rec.op].reports # << >>
C22_FailuresSurfaced ==
    /\ \A i \in 1..Len(ops) :
          (ops[i].pc = "done" /\ OpAttempted(ops[i])) => ops[i].reports # << >>
    /\ \A i \in 1..Len(recs) :
          (recs[i].pc = "done" /\ RunFailed(recs[i])) => RunSurfaced(recs[i])

\* C23: while a switch to V is the only operation there has been, the step
\* in which it succeeds leaves no terminal named R_CONSOLE_NAME open and one
\* forced console listing in flight, and the step in which the callback of a
\* console listing that succeeded runs leaves exactly one such terminal,
\* whose executable is V's binary.
SwitchSucceedsNow(i) ==
    ~Reported(ops[i], "Success") /\ Reported(ops'[i], "Success")
C23_SwitchRecreatesConsole ==
    [][(Len(ops) = 1 /\ Len(ops') = 1 /\ ops[1].kind = "switch") =>
         /\ SwitchSucceedsNow(1) =>
              /\ ~HasConsole(terminals')
              /\ CopiesIn(ConsoleCall(TRUE), calls') = 1
         /\ \A c \in BagToSet(calls) :
              ( c.purpose = "console" /\ c.phase = "read" /\ c.res.ok
                /\ calls' = calls (-) SetToBag({c}) ) =>
                  terminals' = << [name |-> R_CONSOLE_NAME,
                                   shellPath |-> BinaryOf(ops[1].ver)] >>]_vars
\* The console of 4.2-x was open, the switch to 4.3-x succeeded and its
\* callbacks have run: the one console runs 4.3-x.
C23_Witness ==
    /\ Len(ops) = 1 /\ ops[1].kind = "switch" /\ ops[1].ver = "4.3-x"
    /\ Reported(ops[1], "Success")
    /\ calls = EmptyBag
    /\ terminals = << [name |-> R_CONSOLE_NAME, shellPath |-> BinaryOf("4.3-x")] >>

\* The harness calls launchRConsole in this step; the call's forceNew.
Launches == Len(launchLog') = Len(launchLog) + 1
LaunchForce == launchLog'[Len(launchLog')].forceNew
\* The terminals of ts whose name is outside the R name set, in order.
RECURSIVE OtherTerminals(_)
OtherTerminals(ts) ==
    IF ts = << >> THEN << >>
    ELSE IF Head(ts).name \in {"R Console", "R Interactive"}
         THEN OtherTerminals(Tail(ts))
         ELSE << Head(ts) >> \o OtherTerminals(Tail(ts))

\* C24: with the external provider installed (and auto-launch on), a call
\* launchRConsole(forceNew) only delegates: it leaves the terminals as they
\* are and adds one r.createRTerm request and nothing else.
C24_ProviderOnlyDelegates ==
    [][(Launches /\ provider /\ autoLaunch) =>
          /\ terminals' = terminals
          /\ calls' = calls (+) SetToBag({ProviderCall})]_vars

\* C24, amended: with the provider installed a call launchRConsole(forceNew)
\* starts no listing and creates no terminal but adds one r.createRTerm
\* request; with forceNew false it leaves the terminals as they are, with
\* forceNew true it first disposes every terminal named 'R Console' or
\* 'R Interactive' and leaves the others.
C24_ProviderDelegatesAfterDispose ==
    [][(Launches /\ provider /\ autoLaunch) =>
          /\ calls' = calls (+) SetToBag({ProviderCall})
          /\ terminals' = IF LaunchForce THEN OtherTerminals(terminals)
                          ELSE terminals]_vars
\* The provider opened its terminal after a first call; a forced second call
\* has disposed it, kept the user's shell and asked the provider again.
C24_Witness ==
    /\ provider /\ Len(launchLog) = 2
    /\ launchLog[1].autoLaunch /\ launchLog[2].autoLaunch /\ launchLog[2].forceNew
    /\ CopiesIn(ProviderCall, calls) = 1
    /\ terminals = << ShellTerminal >>

\* C29: without the provider and with auto-launch on, a call
\* launchRConsole(false) made while a terminal named 'R Console' is open
\* changes neither the terminals nor the listings in flight; made while none
\* is open it starts one console listing and disposes nothing, and the step
\* in which the callback of such a listing gets a list with a default entry
\* opens one more terminal, named 'R Console', running that entry's binary.
C29_EnsureNoOpOrCreate ==
    [][/\ (Launches /\ ~provider /\ autoLaunch /\ ~LaunchForce) =>
            /\ terminals' = terminals
            /\ IF \E k \in 1..Len(terminals) : terminals[k].name = "R Console"
               THEN calls' = calls
               ELSE calls' = calls (+) SetToBag({ConsoleCall(FALSE)})
       /\ \A c \in BagToSet(calls) :
            ( /\ c.purpose = "console" /\ ~c.force /\ c.phase = "read" /\ c.res.ok
              /\ DefaultFlagged(c.res.list) # {}
              /\ calls' = calls (-) SetToBag({c}) ) =>
                \E k \in 1..Len(c.res.list) :
                    /\ c.res.list[k].default
                    /\ terminals' = Append(terminals,
                        [name |-> "R Console", shellPath |-> c.res.list[k].binary])]_vars
\* Two unforced calls with auto-launch on and no provider have been made and
\* all callbacks have run: one console of the default is open.
C29_Witness ==
    /\ ~provider /\ Len(launchLog) = 2
    /\ \A k \in 1..2 : launchLog[k].autoLaunch /\ ~launchLog[k].forceNew
    /\ calls = EmptyBag
    /\ CountConsoles = 1
    /\ \E k \in 1..Len(terminals) :
          terminals[k] = [name |-> "R Console", shellPath |-> BinaryOf(rigDefault)]

\* C30: every call launchRConsole(forceNew) obeys the value the auto-launch
\* setting has when the call is made: with the setting off the call changes
\* neither the terminals nor the listings in flight; with it on the call
\* delegates or starts a listing, unless it is the unforced call that finds
\* its console open.
C30_ToggleReadEachCall ==
    [][Launches =>
          /\ ~autoLaunch => (terminals' = terminals /\ calls' = calls)
          /\ autoLaunch =>
                \/ calls' # calls
                \/ ~provider /\ ~LaunchForce /\ HasConsole(terminals)]_vars
\* A first call with the setting on opened the console; the setting was then
\* turned off and a forced second call left that console open and started
\* nothing.
C30_Witness ==
    /\ ~provider /\ Len(launchLog) = 2
    /\ launchLog[1].autoLaunch /\ ~launchLog[2].autoLaunch /\ launchLog[2].forceNew
    /\ CountConsoles = 1
    /\ calls = EmptyBag

\* C25: a switch makes its follow-up calls in the step in which it reports
\* success and in no other: there its `rig default` has exited 0, and it
\* calls updateStatusBar() once and then launchRConsole(true) once, which
\* start one status listing and one forced console listing; a switch that
\* has not reported success has made neither call.
C25_SuccessTail ==
    [][/\ \A i \in 1..Len(ops) :
            ops[i].kind = "switch" =>
              IF SwitchSucceedsNow(i)
              THEN /\ ops'[i].exit = 0 /\ ops'[i].ran
                   /\ ops[i].tail = << >>
                   /\ ops'[i].tail = << "updateStatusBar()", "launchRConsole(true)" >>
                   /\ CopiesIn(StatusCall, calls') = CopiesIn(StatusCall, calls) + 1
                   /\ CopiesIn(ConsoleCall(TRUE), calls')
                        = CopiesIn(ConsoleCall(TRUE), calls) + 1
              ELSE ops'[i].tail = ops[i].tail
       /\ \A i \in 1..Len(ops') :
            (ops'[i].kind = "switch" /\ ~Reported(ops'[i], "Success")) =>
                ops'[i].tail = << >>]_vars
\* On darwin a switch whose unelevated attempt failed has succeeded under
\* sudo and has made its two calls.
C25_Witness ==
    \E i \in 1..Len(ops) :
        /\ platform = "darwin" /\ ops[i].kind = "switch" /\ ops[i].elev
        /\ Reported(ops[i], "Success")
        /\ ops[i].nUpd = 1 /\ ops[i].nLaunch = 1

\* C27: a switch follows its platform's strategy.  On win32 it never shows
\* the password box and never runs sudo.  On darwin the password box is open
\* only after the one unelevated `rig default` has failed, sudo runs only
\* after that box, and a switch that succeeded unelevated has shown no box
\* and spawned nothing else.  On every other platform nothing is spawned
\* before the password box and the one process spawned is sudo.
C27_SwitchStrategy ==
    \A i \in 1..Len(ops) :
        LET op == ops[i] IN
        op.kind = "switch" =>
          CASE platform = "win32" ->
                 /\ op.pc # "prompt" /\ ~op.dismissed /\ op.pw = None
                 /\ ~op.elev /\ op.proc.cmd # "sudo"
            [] platform = "darwin" ->
                 /\ op.pc = "prompt" =>
                       (op.nSpawn = 1 /\ op.exit # 0 /\ ~op.elev /\ op.proc.cmd = "sh")
                 /\ (op.elev \/ op.dismissed) => op.preSpawn = 1
                 /\ op.elev <=> op.proc.cmd = "sudo"
                 /\ op.elev <=> op.nSpawn = 2
                 /\ (Reported(op, "Success") /\ ~op.elev) =>
                       (op.nSpawn = 1 /\ op.pw = None /\ ~op.dismissed)
            [] OTHER ->
                 /\ op.preSpawn = 0
                 /\ op.nSpawn <= 1
                 /\ op.nSpawn = 1 <=> op.proc.cmd = "sudo"
                 /\ op.nSpawn = 1 <=> op.elev
                 /\ op.nSpawn = 0 => op.proc.cmd = None
\* On darwin the unelevated attempt of a switch has failed and its password
\* box is open.
C27_Witness ==
    \E i \in 1..Len(ops) :
        /\ platform = "darwin" /\ ops[i].kind = "switch"
        /\ ops[i].pc = "prompt" /\ ops[i].nSpawn = 1 /\ ops[i].exit # 0

\* C26: an install or a remove follows three platform strategies.  On win32
\* it never shows the password box and spawns rig itself.  On darwin the
\* password box is open only after one unelevated spawn, and sudo runs only
\* after that spawn.  On every other platform nothing is spawned before the
\* password box.
C26_ThreeStrategies ==
    \A i \in 1..Len(ops) :
        LET op == ops[i] IN
        op.kind \in {"install", "remove"} =>
          CASE platform = "win32" ->
                 /\ op.pc # "prompt" /\ ~op.dismissed /\ op.pw = None /\ ~op.elev
                 /\ op.nSpawn > 0 => op.proc.cmd = "rig"
            [] platform = "darwin" ->
                 /\ op.pc = "prompt" => op.nSpawn = 1
                 /\ (op.elev \/ op.dismissed) => op.preSpawn = 1
            [] OTHER ->
                 /\ op.pc = "prompt" => op.nSpawn = 0
                 /\ op.preSpawn = 0
                 /\ op.nSpawn > 0 => op.elev

\* C26, amended: an install or a remove follows two platform strategies.  On
\* win32 it never shows the password box and spawns rig itself.  On every
\* other platform, darwin included, nothing is spawned before the password
\* box and the one process spawned after it is sudo.
C26_TwoStrategies ==
    \A i \in 1..Len(ops) :
        LET op == ops[i] IN
        op.kind \in {"install", "remove"} =>
          IF platform = "win32"
          THEN /\ op.pc # "prompt" /\ ~op.dismissed /\ op.pw = None /\ ~op.elev
               /\ op.nSpawn > 0 => op.proc.cmd = "rig"
          ELSE /\ op.pc = "prompt" => op.nSpawn = 0
               /\ op.preSpawn = 0
               /\ op.nSpawn <= 1
               /\ op.nSpawn = 1 <=> op.elev
               /\ op.nSpawn = 1 <=> op.proc.cmd = "sudo"
\* On darwin a remove has run under sudo, its only process, and succeeded.
C26_Witness ==
    \E i \in 1..Len(ops) :
        /\ platform = "darwin" /\ ops[i].kind = "remove"
        /\ ops[i].elev /\ ops[i].nSpawn = 1 /\ ops[i].preSpawn = 0
        /\ Reported(ops[i], "Success")

\* C28: no command spawns again by itself.  A command has spawned at most
\* one process; only a switch on darwin may have spawned two, an unelevated
\* `rig default` before its password box and sudo after it.  Once a command
\* has shown a failure, a wrong password or a cancellation it spawns nothing
\* more.
Failures == {"OperationFailed", "AuthFailed", "StartFailed", "Cancelled"}
C28_NoRetry ==
    [][/\ \A i \in 1..Len(ops') :
            LET op == ops'[i] IN
            IF platform = "darwin" /\ op.kind = "switch"
            THEN /\ op.nSpawn <= 2
                 /\ op.nSpawn = 2 => (op.elev /\ op.preSpawn = 1)
            ELSE op.nSpawn <= 1
       /\ \A i \in 1..Len(ops) :
            (\E f \in Failures : Reported(ops[i], f)) =>
                /\ ops'[i].nSpawn = ops[i].nSpawn
                /\ ops'[i].proc = ops[i].proc]_vars
\* An install under sudo has ended with "Incorrect password or permission
\* error", a second command has been cancelled while its process ran: each
\* has spawned one process.
C28_Witness ==
    /\ Len(ops) = 2
    /\ Reported(ops[1], "AuthFailed") /\ ops[1].pc = "done" /\ ops[1].nSpawn = 1
    /\ ops[2].cancelled /\ ops[2].pc = "done" /\ ops[2].nSpawn = 1

\* C31: a command or a reconcile run acts on a choice only while the listing
\* the choice was made from is still what the backend holds: in the step in
\* which a switch or a remove goes on from its quick pick the items offered
\* are the ones a listing would give now, in the step in which a remove goes
\* on from its confirmation the version is still offered, and in the step in
\* which a reconcile run starts the switch or install it offered its listing
\* is the one the backend would give now.
C31_ActsOnFreshListing ==
    [][/\ \A i \in 1..Len(ops) :
            /\ ( /\ ops[i].kind \in {"switch", "remove"}
                 /\ ops[i].pc = "pick" /\ ops'[i].pc \notin {"pick", "done"} ) =>
                   ops[i].snap = Offered(ops[i].kind, Listing(rigInstalled, rigDefault))
            /\ ( ops[i].pc = "confirm" /\ ops'[i].pc \notin {"confirm", "done"} ) =>
                   \E k \in 1..Len(Removable(Listing(rigInstalled, rigDefault))) :
                       Removable(Listing(rigInstalled, rigDefault))[k].name = ops[i].ver
       /\ \A i \in 1..Len(recs) :
            ( recs[i].pc = "prompt" /\ recs'[i].pc = "await" ) =>
                recs[i].list = Listing(rigInstalled, rigDefault)]_vars

\* C34: when two switches have both succeeded and no listing and no callback
\* is pending any more, an indicator that is shown shows the version of the
\* backend's default.
C34_IndicatorConverges ==
    ( /\ active /\ calls = EmptyBag
      /\ Len(ops) = 2
      /\ \A i \in 1..2 : /\ ops[i].kind = "switch" /\ ops[i].pc = "done"
                         /\ Reported(ops[i], "Success")
      /\ statusBar.visible ) =>
        statusBar.text = VersionOf(rigDefault)

\* C35: a reconcile run never offers a switch to the installation that its
\* listing flags as the default.
C35_NeverOffersDefault ==
    \A i \in 1..Len(recs) :
        recs[i].offer = "switch" =>
            \A k \in 1..Len(recs[i].list) :
                recs[i].list[k].default => recs[i].list[k].name # recs[i].cand

\* C36: when a reconcile run has ended after the user accepted its prompt
\* and the switch or install it started reported success, and nothing else
\* has touched the backend, the version of the backend's default is the
\* requirement or agrees with it on major.minor.
C36_AcceptedMeansSatisfied ==
    \A i \in 1..Len(recs) :
        ( /\ Len(recs) = 1 /\ Len(ops) = 1
          /\ recs[i].pc = "done" /\ recs[i].op # 0
          /\ Reported(ops[recs[i].op], "Success") ) =>
            /\ rigDefault # None
            /\ MajorMinor(VersionOf(rigDefault)) = MajorMinor(recs[i].req)

\* C37: a step of an install or a remove leaves the terminals as they are,
\* starts no console listing and no provider request, and never runs
\* `rig default`; the command calls updateStatusBar() at most once, in a
\* step in which its process has exited 0 and it reports success, and every
\* other step of it leaves the indicator and the listings in flight alone.
C37_InstallRemoveFrame ==
    [][\A i \in 1..Len(ops) :
          ( ops[i].kind \in {"install", "remove"} /\ ops'[i] # ops[i] ) =>
            /\ terminals' = terminals
            /\ \A c \in BagToSet(calls') :
                  c.purpose # "status" => CopiesIn(c, calls') <= CopiesIn(c, calls)
            /\ ops'[i].nLaunch = 0
            /\ \A k \in 1..Len(ops'[i].proc.args) : ops'[i].proc.args[k] # "default"
            /\ IF ops'[i].nUpd # ops[i].nUpd
               THEN /\ ops[i].exit = 0
                    /\ ops'[i].nUpd = 1
                    /\ ~Reported(ops[i], "Success") /\ Reported(ops'[i], "Success")
                    /\ ops'[i].tail = << "updateStatusBar()" >>
                    /\ IF statusVisible
                       THEN calls' = calls (+) SetToBag({StatusCall})
                       ELSE calls' = calls /\ ~statusBar'.visible
               ELSE calls' = calls /\ statusBar' = statusBar]_vars
\* A remove has succeeded and refreshed the indicator once while the console
\* stayed open; an install has been cancelled.
C37_Witness ==
    /\ Len(ops) = 2
    /\ ops[1].kind = "remove" /\ Reported(ops[1], "Success") /\ ops[1].nUpd = 1
    /\ ops[2].kind = "install" /\ ops[2].cancelled /\ ops[2].pc = "done"
    /\ ops[2].nUpd = 0
    /\ CountConsoles = 1

\* C38: a failure is told to the user once.  No command has shown more than
\* one error or warning, a command that has ended without success after it
\* spawned a process or was cancelled has shown one, and a reconcile run
\* together with the switch or install it awaited has shown at most one.
IsFailureMessage(m) ==
    m \in Failures \cup Rejections \cup {"CheckError", "ManifestDecodeError"}
FailureMessages(reports) == Len(SelectSeq(reports, IsFailureMessage))
C38_OneMessagePerFailure ==
    /\ \A i \in 1..Len(ops) :
          /\ FailureMessages(ops[i].reports) <= 1
          /\ ( ops[i].pc = "done" /\ OpAttempted(ops[i])
               /\ ~Reported(ops[i], "Success") ) =>
                 FailureMessages(ops[i].reports) = 1
    /\ \A i \in 1..Len(recs) :
          FailureMessages(recs[i].reports)
            + (IF recs[i].op # 0 THEN FailureMessages(ops[recs[i].op].reports) ELSE 0)
          <= 1

\* C39: in the step in which the refresh command shows 'R version status
\* refreshed and console restarted', auto-launch is on, a console is open
\* (or the provider was asked for one), and no listing of the refresh is
\* still to return.
C39_RefreshReportsAfterwards ==
    [][nRefresh' = nRefresh + 1 =>
          /\ autoLaunch
          /\ provider \/ HasConsole(terminals')
          /\ \A c \in BagToSet(calls') :
                c.purpose # "provider" => CopiesIn(c, calls') <= CopiesIn(c, calls)]_vars

\* C32: every switch, install or remove that has gone past its quick pick
\* and confirmation is eventually settled, the processes ending and the
\* prompts being answered; and while its process is running a command is
\* settled by nothing but the user's cancellation.
Started(op) ==
    op.pc \in {"exec", "execDone", "prompt", "spawned", "spawnErr", "exited"}
C32_SettlesWithoutTimeout ==
    /\ \A i \in 1..MaxCmds :
          (Len(ops) >= i /\ Started(ops[i])) ~> (Len(ops) >= i /\ ops[i].settled)
    /\ [][\A i \in 1..Len(ops) :
            ( ops[i].pc \in {"exec", "spawned"} /\ ~ops[i].settled
              /\ ops'[i].settled ) => ops'[i].cancelled]_vars
\* A command has settled after the process it spawned under sudo ended.
C32_Witness ==
    \E i \in 1..Len(ops) :
        /\ ops[i].settled /\ ops[i].pc = "done"
        /\ ops[i].elev /\ ops[i].nSpawn >= 1 /\ ops[i].exit \in ExitCodes

\* C33: on win32, when rig printed its paths with their backslashes left as
\* they are and some path has one, the call resolves; on every platform a
\* call that resolves gives every field that is not a path the value rig
\* held; on the other platforms the text is parsed as it was printed, so a
\* text with every backslash escaped resolves to exactly the values rig
\* held; and a call whose text does not parse rejects as MalformedOutput,
\* with a message, after logging the text as printed.
HasBackslash(v) == \E k \in 1..Len(v) : v[k] = BS
QuirkBites(c) ==
    c.quirk /\ \E k \in 1..Len(c.fields) :
                  PathShaped(c.fields[k]) /\ HasBackslash(c.fields[k])
C33_Sanitation ==
    \A c \in BagToSet(calls) :
        (c.purpose = "adapter" /\ c.phase = "read" /\ ~c.error) =>
            /\ (platform = "win32" /\ QuirkBites(c)) => c.res.ok
            /\ c.res.ok =>
                  /\ Len(c.res.list) = Len(c.fields)
                  /\ \A k \in 1..Len(c.fields) :
                        ~PathShaped(c.fields[k]) => c.res.list[k] = c.fields[k]
            /\ (platform # "win32" /\ ~c.quirk) => (c.res.ok /\ c.res.list = c.fields)
            /\ ~c.res.ok =>
                  /\ c.res.why = "MalformedOutput"
                  /\ c.res.shown = << "MalformedOutput" >>
                  /\ c.res.logged = << c.stdout >>
====
